---- MODULE Spec2Model ----
(***************************************************************************)
(* The two training procedures of thre3d_atom/modules:                     *)
(*   train_sh_vox_grid_vol_mod_with_posed_images_and_sds  (sds_trainer.py) *)
(*   refine_edited_relu_field                       (attn_grid_trainer.py) *)
(* as one state machine over the control state of a single call: the       *)
(* assertions, the set-up, the stage loop, the iteration loop with its     *)
(* feedback and checkpoint blocks, the rescale between stages, the final   *)
(* save and the return.  Of the numerical work of an iteration (rendering,  *)
(* losses, the optimiser) the model keeps what the rest of the loop reads:  *)
(* index_batch, the index of the sampled frame, and whether it raised.     *)
(***************************************************************************)
EXTENDS Integers, Sequences, FiniteSets, TLC

\* ------------------------------------------------------------------ bounds
MaxStages == 2
MaxIters == 3
MaxFreq == 2
MaxNewFrameFreq == 2
DatasetLen == 2
MaxRays == 3
MaxRayValue == 2
MaxChunk == 3
GridSize == 3
MaxOriginOffset == 1
MaxStep == 2

\* ------------------------------------------------------------------ values
Procs == {"sds", "attn"}

\* camera poses: None, the caller's pose, the poses of the train dataset and
\* the last pose of the test dataset
NoPose == <<"none", 0>>
UserPose == <<"user", 1>>
TrainPose(i) == <<"train", i>>
LastTestPose == <<"test", DatasetLen>>

NoneValue == "None"

\* no render is in progress
NoRender == [pc |-> "idle"]

VARIABLES
    proc,                \* which of the two procedures is called
    args,                \* the arguments of the call
    pc,                  \* position in the procedure
    raised,              \* the exception that ended the call, "" when none
    stage,               \* loop variable of the stage loop
    stage_iteration,     \* loop variable of the iteration loop
    global_step,         \* global_step of the current iteration
    index_batch,         \* index_batch[0]: dataset index of the sampled frame
    render_feedback_pose,\* the local variable render_feedback_pose
    sd_model,            \* the diffusion model has been created
    dirs,                \* the output directories have been created
    real_log,            \* 1__real_log.png has been written
    camera_rays,         \* the camera-rays visualization has been written
    steps,               \* the iterations run so far: stage, stage_iteration
                         \* and global_step of each, in order
    feedbacks,           \* global steps at which a feedback render was made
    feedback_pose,       \* the pose of the latest feedback render, NoPose before
    tests,               \* global steps at which testing scores were computed
    saves,               \* the torch.save calls so far, in order
    rescales,            \* the grid rescales so far, in order
    returned,            \* the value returned, "" before the return
    render               \* the state of a chunked render (SpecChunk) or of
                         \* the sampling of a ray (SpecSampler)

vars == <<proc, args, pc, raised, stage, stage_iteration, global_step,
          index_batch, render_feedback_pose, sd_model, dirs, real_log,
          camera_rays, steps, feedbacks, feedback_pose, tests, saves,
          rescales, returned, render>>

loopVars == <<stage, stage_iteration, global_step, index_batch>>
fsVars == <<sd_model, dirs, real_log, camera_rays>>
logVars == <<steps, feedbacks, feedback_pose, tests, saves, rescales>>

\* ------------------------------------------------------------------ inputs
\* The arguments of a call.  Arguments one procedure does not have are fixed
\* for it (refine_edited_relu_field has no test_dataset, test_freq,
\* fast_debug_mode, use_uncertainty or new_frame_frequency).
CommonArgs ==
    [ num_stages : 1..MaxStages,
      num_iterations_per_stage : 1..MaxIters,
      save_freq : 1..MaxFreq,
      feedback_freq : 1..MaxFreq,
      render_feedback_pose : {NoPose, UserPose},
      render_ok : BOOLEAN,       \* the render procedure is the SH one
      prompt_ok : BOOLEAN,       \* the prompt is not "none"
      directional_dataset : BOOLEAN ]

SdsOnly ==
    [ test_freq : 1..MaxFreq,
      test_dataset : BOOLEAN,    \* a test_dataset is supplied
      fast_debug_mode : BOOLEAN,
      use_uncertainty : BOOLEAN,
      new_frame_frequency : 1..MaxNewFrameFreq,
      repr_ok : {TRUE} ]

AttnOnly ==
    [ test_freq : {1},
      test_dataset : {FALSE},
      fast_debug_mode : {FALSE},
      use_uncertainty : {FALSE},
      new_frame_frequency : {1},
      repr_ok : BOOLEAN ]        \* thre3d_repr is a VoxelGrid

Merge(a, b) == [k \in DOMAIN a \cup DOMAIN b |->
                    IF k \in DOMAIN a THEN a[k] ELSE b[k]]

ArgsOf(p) ==
    { Merge(c, o) : c \in CommonArgs,
                    o \in IF p = "sds" THEN SdsOnly ELSE AttnOnly }

Init ==
    /\ proc \in Procs
    /\ args \in ArgsOf(proc)
    /\ pc = "assert"
    /\ raised = ""
    /\ stage = 0
    /\ stage_iteration = 0
    /\ global_step = 0
    /\ index_batch = 0
    /\ render_feedback_pose = args.render_feedback_pose
    /\ sd_model = FALSE
    /\ dirs = FALSE
    /\ real_log = FALSE
    /\ camera_rays = FALSE
    /\ steps = <<>>
    /\ feedbacks = {}
    /\ feedback_pose = NoPose
    /\ tests = {}
    /\ saves = <<>>
    /\ rescales = <<>>
    /\ returned = ""
    /\ render = NoRender

\* ------------------------------------------------------------ pure helpers
\* mutant: the prompt is not asserted
FailedAssertionNoPrompt(p, a) ==
    IF p = "attn" /\ ~a.repr_ok THEN "isinstance(thre3d_repr, VoxelGrid)"
    ELSE IF ~a.render_ok THEN "render_procedure"
    ELSE ""

\* the assertion that fails first, "" when all hold
FailedAssertion(p, a) ==
    IF p = "attn" /\ ~a.repr_ok THEN "isinstance(thre3d_repr, VoxelGrid)"
    ELSE IF ~a.render_ok THEN "render_procedure"
    ELSE IF ~a.prompt_ok THEN "prompt"
    ELSE ""

\* mutant: the stage offset counts the current stage too
GlobalStepOffByStage(s, i) == (s * args.num_iterations_per_stage) + i

\* global_step = ((stage - 1) * num_iterations_per_stage) + stage_iteration
GlobalStep(s, i) == ((s - 1) * args.num_iterations_per_stage) + i

\* a new batch of frames is loaded in this iteration
NewFrame(gs) ==
    \/ proc = "attn"
    \/ gs % args.new_frame_frequency = 0
    \/ gs = 1

\* the guard of the rendered-feedback block
ShouldFeedback(gs, i) ==
    \/ gs % args.feedback_freq = 0
    \/ i = 1
    \/ i = args.num_iterations_per_stage

\* the feedback block reaches its visualize call
Visualizes(gs) == proc = "attn" \/ args.feedback_freq < gs

\* mutant: the last iteration of a stage is not saved for itself
ShouldSaveNotLast(gs, i) ==
    \/ gs % args.save_freq = 0
    \/ i = 1

\* the guard of the save-the-model block
ShouldSave(gs, i) ==
    \/ gs % args.save_freq = 0
    \/ i = 1
    \/ i = args.num_iterations_per_stage

\* mutant: the grid is up-sampled after the last stage too
ShouldRescaleAlways(s) == s <= args.num_stages

\* the guard of the up-sampling block after a stage
ShouldRescale(s) == s # args.num_stages

\* the index into stagewise_voxel_grid_sizes the rescale after stage s uses
RescaleTarget(s) == s

\* the model whose grid the up-sampling block replaces
RescaledModel(p) == IF p = "sds" THEN "sds_vol_mod" ELSE "vol_mod_edit"

File(n, s, i) == [name |-> n, stage |-> s, iter |-> i]

CheckpointFiles(p, s, gs) ==
    IF p = "sds" THEN << File("model_stage", s, gs) >>
    ELSE << File("model_edit_stage", s, gs), File("model_pbject_stage", s, gs) >>

FinalFiles(p) ==
    IF p = "sds" THEN << File("model_final", 0, 0) >>
    ELSE << File("model_final_attn_edit", 0, 0),
            File("model_final_attn_object", 0, 0),
            File("model_final_refined", 0, 0) >>

\* the value of the return statement
ReturnValue(p) == IF p = "sds" THEN "sds_vol_mod" ELSE NoneValue

\* ------------------------------------------------------------------ actions
\* the assertions at the head of the procedure
CheckAssertions ==
    /\ pc = "assert"
    /\ IF FailedAssertion(proc, args) # ""
       THEN pc' = "raised" /\ raised' = "AssertionError"
       ELSE pc' = "create_sd" /\ raised' = raised
    /\ UNCHANGED <<proc, args, loopVars, render_feedback_pose, fsVars,
                   logVars, returned, render>>

\* scoreDistillationLoss(...) / StableDiffusion(...)
CreateDiffusionModel ==
    /\ pc = "create_sd"
    /\ sd_model' = TRUE
    /\ pc' = "setup"
    /\ UNCHANGED <<proc, args, raised, loopVars, render_feedback_pose, dirs,
                   real_log, camera_rays, logVars, returned, render>>

\* everything between the diffusion model and the stage loop
Setup ==
    /\ pc = "setup"
    /\ render_feedback_pose' =
          IF render_feedback_pose = NoPose
          THEN (IF args.test_dataset THEN LastTestPose ELSE TrainPose(DatasetLen))
          ELSE render_feedback_pose
    /\ dirs' = TRUE
    /\ real_log' = (render_feedback_pose = NoPose)
    /\ camera_rays' = (proc = "sds" /\ ~args.fast_debug_mode)
    /\ stage' = 1
    /\ pc' = "stage"
    /\ UNCHANGED <<proc, args, raised, stage_iteration, global_step,
                   index_batch, sd_model, logVars, returned, render>>

\* the head of a stage: data loader, optimizer, scheduler
StageBegin ==
    /\ pc = "stage"
    /\ IF proc = "sds" /\ args.use_uncertainty
       THEN \* params.append({{...}}): a set display holding a dict
            /\ pc' = "raised"
            /\ raised' = "TypeError"
            /\ UNCHANGED stage_iteration
       ELSE /\ pc' = "iter"
            /\ stage_iteration' = 1
            /\ raised' = raised
    /\ UNCHANGED <<proc, args, stage, global_step, index_batch,
                   render_feedback_pose, fsVars, logVars, returned, render>>

\* One pass through the body of the iteration loop: the main operations up to
\* the optimizer step, then the rendered-feedback block, the save-the-model
\* block and the step of the loop.  An exception in the main operations ends
\* the call before any of the blocks.
Iteration ==
    /\ pc = "iter"
    /\ LET gs == GlobalStep(stage, stage_iteration)
           i == stage_iteration
       IN
       /\ global_step' = gs
       /\ IF NewFrame(gs)
          THEN index_batch' \in 1..DatasetLen
          ELSE index_batch' = index_batch
       /\ IF proc = "attn" /\ ~args.directional_dataset
          THEN \* direction_batch is None in f"{direction_batch[0]} view"
               /\ pc' = "raised"
               /\ raised' = "TypeError"
               /\ UNCHANGED <<stage_iteration, render_feedback_pose, steps,
                              feedbacks, feedback_pose, saves>>
          ELSE /\ raised' = raised
               /\ steps' = Append(steps, [stage |-> stage,
                                           stage_iteration |-> i,
                                           global_step |-> gs])
               \* generated rendered feedback visualizations
               /\ render_feedback_pose' =
                     IF ShouldFeedback(gs, i) THEN TrainPose(index_batch')
                     ELSE render_feedback_pose
               /\ IF ShouldFeedback(gs, i) /\ Visualizes(gs)
                  THEN /\ feedbacks' = feedbacks \cup {gs}
                       /\ feedback_pose' = render_feedback_pose'
                  ELSE UNCHANGED <<feedbacks, feedback_pose>>
               \* save the model
               /\ saves' = IF ShouldSave(gs, i)
                           THEN saves \o CheckpointFiles(proc, stage, gs)
                           ELSE saves
               /\ IF i < args.num_iterations_per_stage
                  THEN stage_iteration' = i + 1 /\ pc' = "iter"
                  ELSE stage_iteration' = i /\ pc' = "stage_end"
    /\ UNCHANGED <<proc, args, stage, fsVars, tests, rescales, returned, render>>

\* what follows the iteration loop of a stage: the grid refinement and its
\* feedback render (refine_edited_relu_field only), the rescale of the grid,
\* and the step of the stage loop
StageEnd ==
    /\ pc = "stage_end"
    /\ IF proc = "attn"
       THEN /\ feedbacks' = feedbacks \cup {0}
            /\ feedback_pose' = render_feedback_pose
       ELSE UNCHANGED <<feedbacks, feedback_pose>>
    /\ rescales' = IF ShouldRescale(stage)
                   THEN Append(rescales, [after_stage |-> stage,
                                          size_index |-> RescaleTarget(stage),
                                          model |-> RescaledModel(proc),
                                          after_steps |-> Len(steps)])
                   ELSE rescales
    /\ IF stage < args.num_stages
       THEN stage' = stage + 1 /\ pc' = "stage"
       ELSE stage' = stage /\ pc' = "final"
    /\ UNCHANGED <<proc, args, raised, stage_iteration, global_step,
                   index_batch, render_feedback_pose, fsVars, steps,
                   tests, saves, returned, render>>

\* save the final trained model(s)
FinalSave ==
    /\ pc = "final"
    /\ saves' = saves \o FinalFiles(proc)
    /\ pc' = "return"
    /\ UNCHANGED <<proc, args, raised, loopVars, render_feedback_pose, fsVars,
                   steps, feedbacks, feedback_pose, tests, rescales,
                   returned, render>>

\* the return statement
Return ==
    /\ pc = "return"
    /\ returned' = ReturnValue(proc)
    /\ pc' = "done"
    /\ UNCHANGED <<proc, args, raised, loopVars, render_feedback_pose, fsVars,
                   logVars, render>>

Next ==
    \/ CheckAssertions
    \/ CreateDiffusionModel
    \/ Setup
    \/ StageBegin
    \/ Iteration
    \/ StageEnd
    \/ FinalSave
    \/ Return

Spec == Init /\ [][Next]_vars

\* the procedure is sequential code: a step that can be taken is taken
FairSpec == Spec /\ WF_vars(Next)

Terminated == pc \in {"done", "raised"}

\* ------------------------------------------------------------------ claims
NumIters == args.num_iterations_per_stage
NumStages == args.num_stages

\* a precondition assertion of the called procedure does not hold
PreconditionFails ==
    \/ ~args.render_ok
    \/ ~args.prompt_ok
    \/ (proc = "attn" /\ ~args.repr_ok)

NoSideEffect ==
    /\ ~sd_model
    /\ ~dirs
    /\ ~real_log
    /\ ~camera_rays
    /\ saves = <<>>
    /\ steps = <<>>
    /\ feedbacks = {}
    /\ rescales = <<>>

\* C1: when a precondition assertion fails (prompt "none", a non-SH render
\* procedure, a representation that is no VoxelGrid), the call ends in an
\* AssertionError and at no point creates the diffusion model, creates a
\* directory, writes a file or runs an iteration.
C1_AssertionBeforeSideEffects ==
    PreconditionFails =>
        /\ NoSideEffect
        /\ pc \in {"assert", "raised"}
        /\ (pc = "raised" => raised = "AssertionError")

\* C1 witness: the default prompt "none" with everything else in order has
\* ended the call
C1_Witness ==
    /\ ~args.prompt_ok
    /\ args.render_ok
    /\ args.repr_ok
    /\ pc = "raised"
    /\ raised = "AssertionError"

\* stage t has run all its iterations
StageComplete(t) ==
    \/ t < stage
    \/ (t = stage /\ pc \in {"stage_end", "final", "return", "done"})

ItersOfStage(t) == {k \in 1..Len(steps) : steps[k].stage = t}

\* C2: the k-th iteration of a run has global_step k, which is
\* (stage - 1) * num_iterations_per_stage + stage_iteration; a stage that has
\* run has made exactly num_iterations_per_stage iterations, with
\* stage_iteration 1, 2, ...; a run that has come to its end has made the
\* global steps 1 .. num_stages * num_iterations_per_stage, each once, in
\* increasing order.
C2_GlobalStepSchedule ==
    /\ \A k \in 1..Len(steps) :
          /\ steps[k].global_step = k
          /\ steps[k].global_step =
                (steps[k].stage - 1) * NumIters + steps[k].stage_iteration
          /\ steps[k].stage \in 1..NumStages
          /\ steps[k].stage_iteration \in 1..NumIters
    /\ \A t \in 1..NumStages :
          /\ Cardinality(ItersOfStage(t)) <= NumIters
          /\ StageComplete(t) => Cardinality(ItersOfStage(t)) = NumIters
    /\ pc = "done" => Len(steps) = NumStages * NumIters

\* C2 witness: a finished run of more than one stage of more than one iteration
C2_Witness ==
    /\ pc = "done"
    /\ NumStages > 1
    /\ NumIters > 1
    /\ Len(steps) = NumStages * NumIters

\* the final files of the called procedure, as the code lists them
FinalNames ==
    IF proc = "sds" THEN {"model_final"}
    ELSE {"model_final_attn_edit", "model_final_attn_object",
          "model_final_refined"}

\* positions in saves of the final file n
FinalSavesOf(n) == {j \in 1..Len(saves) : saves[j].name = n}

\* a final file has been saved
FinalSaved == \E j \in 1..Len(saves) : saves[j].name \in FinalNames

\* positions in saves of the per-iteration checkpoints
CheckpointSaves == {j \in 1..Len(saves) : saves[j].name \notin FinalNames}

\* C3 (state part): no final file is saved twice; a final file is saved only
\* when the last iteration of the last stage has run, and it follows every
\* per-iteration checkpoint in the order of the saves; a call that returns has
\* saved each of its final files exactly once.
C3_FinalSaveState ==
    /\ \A n \in FinalNames : Cardinality(FinalSavesOf(n)) <= 1
    /\ FinalSaved =>
          /\ Len(steps) = NumStages * NumIters
          /\ steps[Len(steps)].stage = NumStages
          /\ steps[Len(steps)].stage_iteration = NumIters
          /\ \A n \in FinalNames : Cardinality(FinalSavesOf(n)) = 1
          /\ \A j \in CheckpointSaves : \A n \in FinalNames :
                \A f \in FinalSavesOf(n) : j < f
    /\ pc = "done" => FinalSaved

\* C3 (step part): once a final file is saved no iteration runs and no
\* checkpoint or final file is saved again.
C3_NothingAfterFinalSave ==
    FinalSaved => (steps' = steps /\ saves' = saves)

\* C3, as far as it holds: every call comes to an end (it returns, or an
\* exception ends it); the final files are each saved at most once, only after
\* the last iteration of the last stage and after every per-iteration
\* checkpoint, and exactly once in a call that returns; nothing runs or is
\* saved after the final save.
C3_OrderOfFinalSave ==
    /\ <>Terminated
    /\ []C3_FinalSaveState
    /\ [][C3_NothingAfterFinalSave]_vars

\* C3: a call whose precondition assertions hold has, when it has come to its
\* end, saved each of its final files exactly once.
C3_FinalSavedOnceWhenEnded ==
    (Terminated /\ ~PreconditionFails) =>
        \A n \in FinalNames : Cardinality(FinalSavesOf(n)) = 1

\* a call of refine_edited_relu_field that returns: two stages run, the three
\* final files saved behind the checkpoints
C3_ReturnedWithFinalFiles ==
    /\ proc = "attn"
    /\ pc = "done"
    /\ NumStages > 1
    /\ Len(saves) > 3
    /\ saves[Len(saves)].name = "model_final_refined"
    /\ saves[Len(saves) - 1].name = "model_final_attn_object"
    /\ saves[Len(saves) - 2].name = "model_final_attn_edit"

\* a per-iteration checkpoint of iteration k of the run is among the saves
CheckpointOf(k) ==
    \E j \in CheckpointSaves :
        /\ saves[j].stage = steps[k].stage
        /\ saves[j].iter = steps[k].global_step

FirstOfStage(k) == steps[k].stage_iteration = 1
LastOfStage(k) == steps[k].stage_iteration = NumIters

\* C4: an iteration saves a checkpoint if and only if its global_step is a
\* multiple of save_freq, or it is the first iteration of its stage, or the
\* last; a stage that has run has checkpoints of its first and its last
\* iteration.
C4_CheckpointSchedule ==
    /\ \A k \in 1..Len(steps) :
          CheckpointOf(k) <=>
              \/ steps[k].global_step % args.save_freq = 0
              \/ FirstOfStage(k)
              \/ LastOfStage(k)
    /\ \A t \in 1..NumStages : StageComplete(t) =>
          /\ \E k \in ItersOfStage(t) : FirstOfStage(k) /\ CheckpointOf(k)
          /\ \E k \in ItersOfStage(t) : LastOfStage(k) /\ CheckpointOf(k)

\* C4 witness: a finished run with an iteration in the middle of a stage that
\* saved because of save_freq alone, one that saved nothing, and a last
\* iteration that saved although save_freq does not divide its global_step
C4_Witness ==
    /\ pc = "done"
    /\ \E k \in 1..Len(steps) :
          /\ ~FirstOfStage(k) /\ ~LastOfStage(k)
          /\ steps[k].global_step % args.save_freq = 0
          /\ CheckpointOf(k)
    /\ \E k \in 1..Len(steps) : ~CheckpointOf(k)
    /\ \E k \in 1..Len(steps) :
          /\ LastOfStage(k) /\ ~FirstOfStage(k)
          /\ steps[k].global_step % args.save_freq # 0
          /\ CheckpointOf(k)

\* C5: every iteration whose global_step is a multiple of feedback_freq, and
\* the first and the last iteration of every stage, generates rendered
\* feedback.
C5_FeedbackSchedule ==
    \A k \in 1..Len(steps) :
        ( \/ steps[k].global_step % args.feedback_freq = 0
          \/ FirstOfStage(k)
          \/ LastOfStage(k) )
        => steps[k].global_step \in feedbacks

\* C6: in the sds procedure with a test_dataset and without fast_debug_mode,
\* every iteration whose global_step is a multiple of test_freq computes the
\* testing scores.
C6_TestSchedule ==
    (proc = "sds" /\ args.test_dataset /\ ~args.fast_debug_mode) =>
        \A k \in 1..Len(steps) :
            steps[k].global_step % args.test_freq = 0
                => steps[k].global_step \in tests

\* C7: with a render_feedback_pose supplied, every feedback render is made
\* from it; a pose of the dataset is used only when none is supplied.
C7_FeedbackPose ==
    (args.render_feedback_pose # NoPose /\ feedback_pose # NoPose)
        => feedback_pose = args.render_feedback_pose

\* C8: a call that returns, returns the trained VolumetricModel, never None.
C8_ReturnsModel ==
    pc = "done" => (returned # NoneValue /\ returned # "")

\* C9: the j-th rescale of a run follows stage j, which is not the last
\* stage: it happens when exactly the iterations of stages 1 .. j have run and
\* targets stagewise_voxel_grid_sizes[j]; every iteration of a stage after the
\* first runs after the rescale that follows the stage before it; there are
\* never more than num_stages - 1 rescales, and exactly num_stages - 1 once the
\* last stage has run.
C9_RescaleBetweenStages ==
    /\ Len(rescales) <= NumStages - 1
    /\ \A j \in 1..Len(rescales) :
          /\ rescales[j].after_stage = j
          /\ rescales[j].size_index = j
          /\ rescales[j].after_steps = j * NumIters
    /\ \A k \in 1..Len(steps) : steps[k].stage > 1 =>
          /\ Len(rescales) >= steps[k].stage - 1
          /\ rescales[steps[k].stage - 1].after_steps < k
    /\ \A t \in 1..NumStages : (StageComplete(t) /\ (t < stage \/ pc # "stage_end"))
          => Len(rescales) >= (IF t < NumStages THEN t ELSE NumStages - 1)
    /\ pc \in {"final", "return", "done"} => Len(rescales) = NumStages - 1

\* C9 witness: a run of more than one stage has returned, with a rescale behind
\* every stage but the last
C9_Witness ==
    /\ pc = "done"
    /\ NumStages > 1
    /\ Len(rescales) = NumStages - 1
    /\ rescales[1].after_stage = 1

\* ------------------------------------------------- the chunked render
\* The batching/chunking controller of the renderer: the rays of a render are
\* cut into chunks of at most parallel_rays_chunk_size rays, the chunks are
\* rendered one after another and the rendered chunks are collated.  Here
\* args holds the arguments of the render and render its progress.

Min(a, b) == IF a < b THEN a ELSE b

\* the ray sets a render is given: at least one ray
RaySets == UNION { [1..n -> 1..MaxRayValue] : n \in 1..MaxRays }

\* what rendering one ray yields
RenderRay(r) == <<"pixel", r>>

\* the rays of the chunk that starts behind chunk_index: positions first .. last
ChunkBounds(chunk_index, size, n) ==
    [first |-> chunk_index + 1, last |-> Min(chunk_index + size, n)]

\* mutant: the next chunk starts one ray too far
NextChunkIndexSkips(chunk_index, size) == chunk_index + size + 1

\* where the next chunk starts
NextChunkIndex(chunk_index, size) == chunk_index + size

RECURSIVE Collated(_)
\* the rendered chunks, concatenated in the order they were rendered
Collated(chunks) ==
    IF chunks = <<>> THEN <<>>
    ELSE Head(chunks).out \o Collated(Tail(chunks))

InitChunk ==
    /\ proc = "render"
    /\ args \in [rays : RaySets, parallel_rays_chunk_size : 1..MaxChunk]
    /\ pc = "render"
    /\ raised = ""
    /\ stage = 0
    /\ stage_iteration = 0
    /\ global_step = 0
    /\ index_batch = 0
    /\ render_feedback_pose = NoPose
    /\ sd_model = FALSE
    /\ dirs = FALSE
    /\ real_log = FALSE
    /\ camera_rays = FALSE
    /\ steps = <<>>
    /\ feedbacks = {}
    /\ feedback_pose = NoPose
    /\ tests = {}
    /\ saves = <<>>
    /\ rescales = <<>>
    /\ returned = ""
    /\ render = [pc |-> "chunks", chunk_index |-> 0, rendered_chunks |-> <<>>,
                 out |-> <<>>]

trainerVars == <<proc, args, pc, raised, loopVars, render_feedback_pose,
                 fsVars, logVars, returned>>

\* render the next chunk of rays
RenderChunk ==
    /\ render.pc = "chunks"
    /\ render.chunk_index < Len(args.rays)
    /\ LET b == ChunkBounds(render.chunk_index, args.parallel_rays_chunk_size,
                            Len(args.rays))
           chunk == SubSeq(args.rays, b.first, b.last)
           rendered_chunk == [i \in 1..Len(chunk) |-> RenderRay(chunk[i])]
       IN render' = [render EXCEPT
             !.rendered_chunks = Append(@, [first |-> b.first,
                                            last |-> b.last,
                                            out |-> rendered_chunk]),
             !.chunk_index = NextChunkIndex(render.chunk_index,
                                            args.parallel_rays_chunk_size)]
    /\ UNCHANGED trainerVars

\* no rays are left: collate the rendered chunks
Collate ==
    /\ render.pc = "chunks"
    /\ render.chunk_index >= Len(args.rays)
    /\ render' = [render EXCEPT !.pc = "collated",
                                !.out = Collated(render.rendered_chunks)]
    /\ UNCHANGED trainerVars

NextChunk ==
    \/ RenderChunk
    \/ Collate

SpecChunk == InitChunk /\ [][NextChunk]_vars

\* the chunks that hold ray i
ChunksOf(i) ==
    {j \in 1..Len(render.rendered_chunks) :
        render.rendered_chunks[j].first <= i /\ i <= render.rendered_chunks[j].last}

\* C10: the chunks rendered so far hold consecutive runs of the input rays in
\* the order of the input, each of at least one and at most
\* parallel_rays_chunk_size rays and with one output per ray; no ray is in two
\* chunks; when the render is collated every ray is in exactly one chunk and
\* the output has one entry per input ray, the i-th being the render of the
\* i-th ray.
C10_ChunksPartitionRays ==
    LET chunks == render.rendered_chunks
        n == Len(args.rays)
    IN
    /\ \A j \in 1..Len(chunks) :
          /\ chunks[j].first = (IF j = 1 THEN 1 ELSE chunks[j - 1].last + 1)
          /\ chunks[j].first <= chunks[j].last
          /\ chunks[j].last <= n
          /\ chunks[j].last - chunks[j].first + 1 <= args.parallel_rays_chunk_size
          /\ Len(chunks[j].out) = chunks[j].last - chunks[j].first + 1
    /\ \A i \in 1..n : Cardinality(ChunksOf(i)) <= 1
    /\ render.pc = "collated" =>
          /\ \A i \in 1..n : Cardinality(ChunksOf(i)) = 1
          /\ Len(render.out) = n
          /\ \A i \in 1..n : render.out[i] = RenderRay(args.rays[i])

\* C10 witness: a collated render of more than one chunk, the last chunk not
\* full, over rays that are not all the same
C10_Witness ==
    /\ render.pc = "collated"
    /\ Len(render.rendered_chunks) > 1
    /\ Len(args.rays) % args.parallel_rays_chunk_size # 0
    /\ \E i, k \in 1..Len(args.rays) : args.rays[i] # args.rays[k]

\* ------------------------------------------------------ the grid sampler
\* The grid sampler of the renderer: a ray is cut to the part of it that lies
\* in the bounding volume of the voxel grid and marched through it from the
\* near end to the far end; every step yields a sample point, and every
\* sample gets the distance to the sample after it.  The volume is the box
\* [0, GridSize] on every axis, rays have integer origins and directions with
\* components -1, 0, 1, depths along a ray are integers.  Here args holds the
\* ray and the step of the march and render the progress of the sampler.

Max(a, b) == IF a > b THEN a ELSE b

Axes == {1, 2}

Origins == [Axes -> (0 - MaxOriginOffset)..(GridSize + MaxOriginOffset)]

Directions == {d \in [Axes -> {-1, 0, 1}] : \E a \in Axes : d[a] # 0}

\* the axes along which the ray moves
ActiveAxes(d) == {a \in Axes : d[a] # 0}

\* depth at which the ray enters / leaves the slab of axis a (d[a] is 1 or -1)
AxisEntry(o, d, a) == Min((0 - o[a]) * d[a], (GridSize - o[a]) * d[a])
AxisExit(o, d, a) == Max((0 - o[a]) * d[a], (GridSize - o[a]) * d[a])

RECURSIVE MaxOver(_, _, _, _)
MaxOver(o, d, as, acc) ==
    IF as = {} THEN acc
    ELSE LET a == CHOOSE x \in as : TRUE
         IN MaxOver(o, d, as \ {a}, Max(acc, AxisEntry(o, d, a)))

RECURSIVE MinOver(_, _, _)
MinOver(o, d, as) ==
    LET a == CHOOSE x \in as : TRUE
    IN IF as = {a} THEN AxisExit(o, d, a)
       ELSE Min(AxisExit(o, d, a), MinOver(o, d, as \ {a}))

\* mutant: the near end is not cut at the ray origin
RayNearBehindOrigin(o, d) ==
    LET a == CHOOSE x \in ActiveAxes(d) : TRUE
    IN MaxOver(o, d, ActiveAxes(d) \ {a}, AxisEntry(o, d, a))

\* depth of the near end of the ray in the volume, never behind the origin
RayNear(o, d) == MaxOver(o, d, ActiveAxes(d), 0)

\* depth of the far end of the ray in the volume
RayFar(o, d) == MinOver(o, d, ActiveAxes(d))

\* the ray meets the volume
RayHits(o, d) ==
    /\ \A a \in Axes : d[a] = 0 => (0 <= o[a] /\ o[a] <= GridSize)
    /\ RayNear(o, d) <= RayFar(o, d)

\* the point of the ray at depth t
PointAt(o, d, t) == [a \in Axes |-> o[a] + t * d[a]]

\* the distance of each sample to the one after it; for the last sample the
\* rest of the ray in the volume
Deltas(samples, far) ==
    [k \in 1..Len(samples) |->
        IF k < Len(samples) THEN samples[k + 1].depth - samples[k].depth
        ELSE far - samples[k].depth]

InitSampler ==
    /\ proc = "sample"
    /\ args \in [origin : Origins, direction : Directions, step : 1..MaxStep]
    /\ pc = "sample"
    /\ raised = ""
    /\ stage = 0
    /\ stage_iteration = 0
    /\ global_step = 0
    /\ index_batch = 0
    /\ render_feedback_pose = NoPose
    /\ sd_model = FALSE
    /\ dirs = FALSE
    /\ real_log = FALSE
    /\ camera_rays = FALSE
    /\ steps = <<>>
    /\ feedbacks = {}
    /\ feedback_pose = NoPose
    /\ tests = {}
    /\ saves = <<>>
    /\ rescales = <<>>
    /\ returned = ""
    /\ render = [pc |-> "intersect", near |-> 0, far |-> 0, depth |-> 0,
                 samples |-> <<>>, deltas |-> <<>>]

\* cut the ray to the bounding volume
Intersect ==
    /\ render.pc = "intersect"
    /\ render' =
          IF RayHits(args.origin, args.direction)
          THEN [render EXCEPT !.pc = "march",
                              !.near = RayNear(args.origin, args.direction),
                              !.far = RayFar(args.origin, args.direction),
                              !.depth = RayNear(args.origin, args.direction)]
          ELSE [render EXCEPT !.pc = "missed"]
    /\ UNCHANGED trainerVars

\* take the sample at the current depth and step on
MarchStep ==
    /\ render.pc = "march"
    /\ render.depth <= render.far
    /\ render' = [render EXCEPT
          !.samples = Append(@, [depth |-> render.depth,
                                 point |-> PointAt(args.origin, args.direction,
                                                   render.depth)]),
          !.depth = @ + args.step]
    /\ UNCHANGED trainerVars

\* the far end is passed: give every sample its distance
FinishMarch ==
    /\ render.pc = "march"
    /\ render.depth > render.far
    /\ render' = [render EXCEPT !.pc = "sampled",
                                !.deltas = Deltas(render.samples, render.far)]
    /\ UNCHANGED trainerVars

NextSampler ==
    \/ Intersect
    \/ MarchStep
    \/ FinishMarch

SpecSampler == InitSampler /\ [][NextSampler]_vars

\* squared distance of two points
DistSq(p, q) ==
    (p[1] - q[1]) * (p[1] - q[1]) + (p[2] - q[2]) * (p[2] - q[2])

InVolume(p) == \A a \in Axes : 0 <= p[a] /\ p[a] <= GridSize

\* C11: every sample point of a ray lies in the bounding volume of the grid;
\* the samples are in the order of their distance from the ray origin, none
\* nearer than the one before it; once the ray is sampled there is one
\* distance per sample, none negative, and the distance of a sample that has a
\* successor is the distance between the two sample points.
C11_SamplesOrderedInVolume ==
    LET ss == render.samples
        o == args.origin
        d == args.direction
    IN
    (proc = "sample") =>
    /\ \A k \in 1..Len(ss) : InVolume(ss[k].point)
    /\ \A k \in 1..(Len(ss) - 1) :
          DistSq(o, ss[k].point) <= DistSq(o, ss[k + 1].point)
    /\ render.pc = "sampled" =>
          /\ Len(render.deltas) = Len(ss)
          /\ \A k \in 1..Len(ss) : render.deltas[k] >= 0
          /\ \A k \in 1..(Len(ss) - 1) :
                render.deltas[k] * render.deltas[k] * DistSq(d, [a \in Axes |-> 0])
                    = DistSq(ss[k].point, ss[k + 1].point)

\* C11 witness: a ray that starts inside the volume and runs along a diagonal
\* is sampled with more than one sample, the last one short of the far end
C11_Witness ==
    /\ proc = "sample"
    /\ render.pc = "sampled"
    /\ InVolume(args.origin)
    /\ \A a \in Axes : args.direction[a] # 0
    /\ Len(render.samples) > 1
    /\ render.deltas[Len(render.deltas)] > 0

====
